---- MODULE Spec2Model ----
(***************************************************************************)
(* Model of the users HTTP service of main.go: five handlers over one      *)
(* table `users (id SERIAL PRIMARY KEY, name VARCHAR(255),                 *)
(* email VARCHAR(255))`.  Every SQL statement is one atomic step; the      *)
(* handlers createUser (two statements) and updateUser (three statements)  *)
(* can therefore interleave with other requests between their statements.  *)
(* Strings are tuples of one-character strings.                            *)
(***************************************************************************)
EXTENDS Integers, Sequences, FiniteSets, TLC

VARIABLES users, users_id_seq, alive, inflight, last

vars == <<users, users_id_seq, alive, inflight, last>>

----------------------------------------------------------------------------
(* Bounds of the model *)

\* the last value the id sequence may hand out
MaxId == 2

\* the handler goroutines whose statements may interleave
Procs == {1, 2}

----------------------------------------------------------------------------
(* Program constants *)

VarcharLen == 255
MaxInt4 == 2147483647
StatusOK == 200
StatusCreated == 201
StatusBadRequest == 400
StatusNotFound == 404
StatusConflict == 409
StatusInternalServerError == 500

----------------------------------------------------------------------------
(* Character classes of the pattern in isValidEmail *)

Lower == {"a","b","c","d","e","f","g","h","i","j","k","l","m",
          "n","o","p","q","r","s","t","u","v","w","x","y","z"}
Upper == {"A","B","C","D","E","F","G","H","I","J","K","L","M",
          "N","O","P","Q","R","S","T","U","V","W","X","Y","Z"}
Digit == {"0","1","2","3","4","5","6","7","8","9"}
Letter == Lower \cup Upper
LocalChar == Letter \cup Digit \cup {".", "_", "%", "+", "-"}
DomainChar == Letter \cup Digit \cup {".", "-"}

AllIn(s, lo, hi, class) == \A k \in lo..hi : s[k] \in class

\* re.MatchString(email) for ^[a-zA-Z0-9._%+-]+@[a-zA-Z0-9.-]+\.[a-zA-Z]{2,}$
MatchString(email) ==
    \E i \in 1..Len(email) :
        /\ email[i] = "@"
        /\ i > 1
        /\ AllIn(email, 1, i - 1, LocalChar)
        /\ \E j \in (i + 2)..Len(email) :
              /\ email[j] = "."
              /\ AllIn(email, i + 1, j - 1, DomainChar)
              /\ Len(email) - j >= 2
              /\ AllIn(email, j + 1, Len(email), Letter)

----------------------------------------------------------------------------
(* The store's view of a path id: the text is converted to the integer     *)
(* column type; text that is not a decimal integer in range is an error.   *)

NotInt == -1

DigitVal(c) == CASE c = "0" -> 0 [] c = "1" -> 1 [] c = "2" -> 2 [] c = "3" -> 3
                 [] c = "4" -> 4 [] c = "5" -> 5 [] c = "6" -> 6 [] c = "7" -> 7
                 [] c = "8" -> 8 [] c = "9" -> 9

RECURSIVE DecimalValue(_, _)
DecimalValue(s, n) == IF n = 0 THEN 0
                      ELSE 10 * DecimalValue(s, n - 1) + DigitVal(s[n])

\* the integer the store reads in the text, NotInt when it rejects the text
StoreInt(id) ==
    IF Len(id) = 0 \/ ~AllIn(id, 1, Len(id), Digit) THEN NotInt
    ELSE IF DecimalValue(id, Len(id)) > MaxInt4 THEN NotInt
    ELSE DecimalValue(id, Len(id))

----------------------------------------------------------------------------
(* Values *)

EmptyStr == <<>>
NameA == <<"A">>
NameB == <<"B">>
LongName == [i \in 1..(VarcharLen + 1) |-> "n"]

EmailA == <<"a", "@", "b", ".", "c", "o">>
EmailC == <<"c", "@", "d", ".", "i", "o">>
EmailBad == <<"a", "@", "b", ".", "c">>

Names == {EmptyStr, NameA, NameB, LongName}
Emails == {EmptyStr, EmailA, EmailC, EmailBad}

\* a request body: JSON that does not decode into User, or an object whose
\* name and email are the given strings (an absent field decodes as "") and
\* that carries no id, so that u.ID stays 0
Malformed == [json |-> FALSE, name |-> EmptyStr, email |-> EmptyStr]
Bodies == {Malformed} \cup [json : {TRUE}, name : Names, email : Emails]

PathIds == {<<"1">>, <<"0", "2">>, <<"x">>}

\* the emails of the model that match the pattern, computed once
ValidEmails == {email \in Emails : MatchString(email)}

\* isValidEmail
IsValidEmail(email) == email \in ValidEmails

\* StoreInt over the path ids of the model, computed once
IdValue == [id \in PathIds \cup {EmptyStr} |-> StoreInt(id)]

\* the value the store compares the id column with, for the path id of a request
ParseId(id) == IdValue[id]

\* the bodies of the concurrent specification
RaceBodies == {Malformed} \cup [json : {TRUE}, name : {EmptyStr, NameA, NameB},
                                  email : {EmptyStr, EmailA, EmailC}]

\* type User struct: the zero value, left in place when Scan finds no row
ZeroUser == [id |-> 0, name |-> EmptyStr, email |-> EmptyStr]

\* json.NewDecoder(r.Body).Decode(&u)
Decode(body) ==
    IF ~body.json THEN [err |-> TRUE, name |-> EmptyStr, email |-> EmptyStr]
    ELSE [err |-> FALSE, name |-> body.name, email |-> body.email]

Idle == [pc |-> "idle", id |-> EmptyStr, name |-> EmptyStr, email |-> EmptyStr]

\* the users encoded in a response, none for an error response or a plain string
NoBody == {}

Step(op, id, name, email, out, status, msg, body) ==
    [op |-> op, id |-> id, name |-> name, email |-> email,
     out |-> out, status |-> status, msg |-> msg, body |-> body]

----------------------------------------------------------------------------
(* The SQL statements, as functions of the table *)

\* SELECT * FROM users WHERE id = $1
SelectById(t, n) == {r \in t : r.id = n}

\* variant: WHERE name = $1 AND email = $2
SelectByNameAndEmail(t, name, email) ==
    {r \in t : r.name = name /\ r.email = email}

\* SELECT id, name, email FROM users WHERE name = $1 OR email = $2
SelectByNameOrEmail(t, name, email) ==
    {r \in t : r.name = name \/ r.email = email}

\* variant: WHERE email = $1, the target row not excluded
SelectByEmail(t, email, n) ==
    {r \in t : r.email = email}

\* SELECT id, name, email FROM users WHERE email = $1 AND id != $2
SelectByEmailNotId(t, email, n) ==
    {r \in t : r.email = email /\ r.id # n}

\* QueryRow(...).Scan(&u...): the first row of the result, in the store's
\* scan order; with no row Scan returns sql.ErrNoRows and u keeps its zero value
Scan(rows) == IF rows = {} THEN {ZeroUser} ELSE rows

\* name VARCHAR(255), email VARCHAR(255): a longer value is rejected
Fits(name, email) == Len(name) <= VarcharLen /\ Len(email) <= VarcharLen

\* variant: the two values bound in the wrong order
InsertRowSwapped(t, n, name, email) ==
    t \cup {[id |-> n, name |-> email, email |-> name]}

\* variant: the insert is skipped when the email is already stored
InsertRowUnique(t, n, name, email) ==
    IF \E r \in t : r.email = email THEN t
    ELSE t \cup {[id |-> n, name |-> name, email |-> email]}

\* INSERT INTO users (name, email) VALUES ($1, $2) RETURNING id
InsertRow(t, n, name, email) ==
    t \cup {[id |-> n, name |-> name, email |-> email]}

\* variant: UPDATE without the WHERE clause
UpdateRowsAll(t, name, email, n) ==
    {[r EXCEPT !.name = name, !.email = email] : r \in t}

\* UPDATE users SET name = $1, email = $2 WHERE id = $3
UpdateRows(t, name, email, n) ==
    {IF r.id = n THEN [r EXCEPT !.name = name, !.email = email] ELSE r : r \in t}

\* variant: WHERE id <= $1
DeleteRowsUpTo(t, n) == {r \in t : r.id > n}

\* DELETE FROM users WHERE id = $1
DeleteRows(t, n) == {r \in t : r.id # n}

----------------------------------------------------------------------------
(* State after main() has connected, created the table and started serving *)

Init ==
    /\ users = {}
    /\ users_id_seq = 1
    /\ alive = TRUE
    /\ inflight = [p \in Procs |-> Idle]
    /\ last = Step("none", EmptyStr, EmptyStr, EmptyStr, "none", 0, "", NoBody)

\* log.Fatal(err): os.Exit(1); every goroutine stops where it is
Fatal(op, id, name, email) ==
    /\ alive' = FALSE
    /\ last' = Step(op, id, name, email, "fatal", 0, "", NoBody)
    /\ UNCHANGED <<users, users_id_seq, inflight>>

\* http.Error(w, msg, status); return
Reject(p, op, id, name, email, status, msg) ==
    /\ last' = Step(op, id, name, email, "response", status, msg, NoBody)
    /\ inflight' = [inflight EXCEPT ![p] = Idle]
    /\ UNCHANGED <<users, users_id_seq, alive>>

\* GET /users
GetUsers ==
    /\ alive
    /\ last' = Step("getUsers", EmptyStr, EmptyStr, EmptyStr,
                    "response", StatusOK, "", users)
    /\ UNCHANGED <<users, users_id_seq, alive, inflight>>

\* variant: a missing row is answered 404 and the process keeps running
GetUserNotFound(id) ==
    /\ alive
    /\ IF ParseId(id) = NotInt \/ SelectById(users, ParseId(id)) = {}
       THEN /\ last' = Step("getUser", id, EmptyStr, EmptyStr, "response",
                            StatusNotFound, "User not found", NoBody)
            /\ UNCHANGED <<users, users_id_seq, alive, inflight>>
       ELSE \E u \in SelectById(users, ParseId(id)) :
              /\ last' = Step("getUser", id, EmptyStr, EmptyStr,
                              "response", StatusOK, "", {u})
              /\ UNCHANGED <<users, users_id_seq, alive, inflight>>

\* GET /users/{id}
GetUser(id) ==
    /\ alive
    /\ IF ParseId(id) = NotInt \/ SelectById(users, ParseId(id)) = {}
       THEN Fatal("getUser", id, EmptyStr, EmptyStr)
       ELSE \E u \in SelectById(users, ParseId(id)) :
              /\ last' = Step("getUser", id, EmptyStr, EmptyStr,
                              "response", StatusOK, "", {u})
              /\ UNCHANGED <<users, users_id_seq, alive, inflight>>

\* POST /users, up to and including the lookup of an existing user
CreateUserCheck(p, body) ==
    /\ alive
    /\ inflight[p].pc = "idle"
    /\ users_id_seq + Cardinality({q \in Procs : inflight[q].pc = "insert"}) <= MaxId
    /\ LET u == Decode(body) IN
       IF u.err
       THEN Reject(p, "createUser", EmptyStr, EmptyStr, EmptyStr,
                   StatusBadRequest, "Invalid request payload")
       ELSE IF u.name = EmptyStr \/ ~IsValidEmail(u.email)
       THEN Reject(p, "createUser", EmptyStr, EmptyStr, EmptyStr, StatusBadRequest,
                   "Invalid input: Name is required and Email must be valid")
       ELSE \E existingUser \in Scan(SelectByNameOrEmail(users, u.name, u.email)) :
              IF existingUser.id # 0
              THEN Reject(p, "createUser", EmptyStr, u.name, u.email, StatusConflict,
                          "User with the same name or email already exists")
              ELSE /\ inflight' = [inflight EXCEPT ![p] =
                          [pc |-> "insert", id |-> EmptyStr,
                           name |-> u.name, email |-> u.email]]
                   /\ UNCHANGED <<users, users_id_seq, alive, last>>

\* POST /users, the insert and the response
CreateUserInsert(p) ==
    /\ alive
    /\ inflight[p].pc = "insert"
    /\ LET u == inflight[p] IN
       /\ users_id_seq' = users_id_seq + 1
       /\ inflight' = [inflight EXCEPT ![p] = Idle]
       /\ alive' = alive
       /\ IF Fits(u.name, u.email)
          THEN /\ users' = InsertRow(users, users_id_seq, u.name, u.email)
               /\ last' = Step("createUser", EmptyStr, u.name, u.email,
                               "response", StatusCreated, "",
                               {[id |-> users_id_seq, name |-> u.name, email |-> u.email]})
          ELSE /\ users' = users
               /\ last' = Step("createUser", EmptyStr, u.name, u.email, "response",
                               StatusInternalServerError, "Error creating user", NoBody)

\* variant: the existence of the target row is checked before the email
UpdateUserCheckExistsFirst(p, id, body) ==
    /\ alive
    /\ inflight[p].pc = "idle"
    /\ LET u == Decode(body) IN
       IF u.err
       THEN Reject(p, "updateUser", EmptyStr, EmptyStr, EmptyStr,
                   StatusBadRequest, "Invalid request payload")
       ELSE IF u.name = EmptyStr \/ u.email = EmptyStr
       THEN Reject(p, "updateUser", EmptyStr, EmptyStr, EmptyStr,
                   StatusBadRequest, "Name and Email are required")
       ELSE IF ParseId(id) = NotInt
       THEN Fatal("updateUser", id, EmptyStr, EmptyStr)
       ELSE IF SelectById(users, ParseId(id)) = {}
       THEN Reject(p, "updateUser", id, u.name, u.email,
                   StatusNotFound, "User not found")
       ELSE \E existingUser \in Scan(SelectByEmailNotId(users, u.email, ParseId(id))) :
              IF existingUser.id # 0
              THEN Reject(p, "updateUser", id, u.name, u.email, StatusConflict,
                          "Email already in use by another user")
              ELSE /\ inflight' = [inflight EXCEPT ![p] =
                          [pc |-> "fetch", id |-> id,
                           name |-> u.name, email |-> u.email]]
                   /\ UNCHANGED <<users, users_id_seq, alive, last>>

\* PUT /users/{id}, up to and including the lookup of the email in other rows
UpdateUserCheck(p, id, body) ==
    /\ alive
    /\ inflight[p].pc = "idle"
    /\ LET u == Decode(body) IN
       IF u.err
       THEN Reject(p, "updateUser", EmptyStr, EmptyStr, EmptyStr,
                   StatusBadRequest, "Invalid request payload")
       ELSE IF u.name = EmptyStr \/ u.email = EmptyStr
       THEN Reject(p, "updateUser", EmptyStr, EmptyStr, EmptyStr,
                   StatusBadRequest, "Name and Email are required")
       ELSE IF ParseId(id) = NotInt
       THEN Fatal("updateUser", id, EmptyStr, EmptyStr)
       ELSE \E existingUser \in Scan(SelectByEmailNotId(users, u.email, ParseId(id))) :
              IF existingUser.id # 0
              THEN Reject(p, "updateUser", id, u.name, u.email, StatusConflict,
                          "Email already in use by another user")
              ELSE /\ inflight' = [inflight EXCEPT ![p] =
                          [pc |-> "fetch", id |-> id,
                           name |-> u.name, email |-> u.email]]
                   /\ UNCHANGED <<users, users_id_seq, alive, last>>

\* PUT /users/{id}, the fetch of the current row and the comparison with it
UpdateUserFetch(p) ==
    /\ alive
    /\ inflight[p].pc = "fetch"
    /\ LET u == inflight[p] IN
       IF SelectById(users, ParseId(u.id)) = {}
       THEN Reject(p, "updateUser", u.id, u.name, u.email,
                   StatusNotFound, "User not found")
       ELSE \E currentUser \in SelectById(users, ParseId(u.id)) :
              IF currentUser.name = u.name /\ currentUser.email = u.email
              THEN Reject(p, "updateUser", u.id, u.name, u.email,
                          StatusBadRequest, "No changes detected")
              ELSE /\ inflight' = [inflight EXCEPT ![p].pc = "exec"]
                   /\ UNCHANGED <<users, users_id_seq, alive, last>>

\* PUT /users/{id}, the update statement and the response
UpdateUserExec(p) ==
    /\ alive
    /\ inflight[p].pc = "exec"
    /\ LET u == inflight[p] IN
       IF ~Fits(u.name, u.email)
       THEN Fatal("updateUser", u.id, EmptyStr, EmptyStr)
       ELSE /\ users' = UpdateRows(users, u.name, u.email, ParseId(u.id))
            /\ inflight' = [inflight EXCEPT ![p] = Idle]
            /\ last' = Step("updateUser", u.id, u.name, u.email, "response", StatusOK, "",
                            {[id |-> ZeroUser.id, name |-> u.name, email |-> u.email]})
            /\ UNCHANGED <<users_id_seq, alive>>

\* DELETE /users/{id}
DeleteUser(id) ==
    /\ alive
    /\ IF ParseId(id) = NotInt
       THEN Fatal("deleteUser", id, EmptyStr, EmptyStr)
       ELSE /\ users' = DeleteRows(users, ParseId(id))
            /\ last' = Step("deleteUser", id, EmptyStr, EmptyStr,
                            "response", StatusOK, "User deleted", NoBody)
            /\ UNCHANGED <<users_id_seq, alive, inflight>>

\* Requests arriving at any time, handled concurrently by the workers Procs
Next ==
    \/ GetUsers
    \/ \E id \in PathIds : GetUser(id)
    \/ \E p \in Procs, body \in RaceBodies : CreateUserCheck(p, body)
    \/ \E p \in Procs : CreateUserInsert(p)
    \/ \E p \in Procs, id \in PathIds, body \in RaceBodies : UpdateUserCheck(p, id, body)
    \/ \E p \in Procs : UpdateUserFetch(p)
    \/ \E p \in Procs : UpdateUserExec(p)
    \/ \E id \in PathIds : DeleteUser(id)

Spec == Init /\ [][Next]_vars

\* One request at a time, over the full sets of bodies and path ids
NextSeq ==
    \/ GetUsers
    \/ \E id \in PathIds : GetUser(id)
    \/ \E body \in Bodies : CreateUserCheck(1, body)
    \/ CreateUserInsert(1)
    \/ \E id \in PathIds, body \in Bodies : UpdateUserCheck(1, id, body)
    \/ UpdateUserFetch(1)
    \/ UpdateUserExec(1)
    \/ \E id \in PathIds : DeleteUser(id)

SpecSeq == Init /\ [][NextSeq]_vars

----------------------------------------------------------------------------
(* Vocabulary of the properties *)

Ids(t) == {r.id : r \in t}

\* the step ends the request of p with this response
Answered(p, status, msg) ==
    /\ inflight'[p].pc = "idle"
    /\ last'.out = "response"
    /\ last'.status = status
    /\ last'.msg = msg

\* the step can be the first statement of a PUT handled by p: p was idle and
\* either goes on to the fetch or a response or a stop of updateUser is recorded
\* (tested before the path ids and bodies are enumerated)
StartsUpdate(p) ==
    /\ inflight[p].pc = "idle"
    /\ \/ inflight'[p].pc = "fetch"
       \/ last' # last /\ last'.op = "updateUser"

\* the step can be the first statement of a POST handled by p
StartsCreate(p) ==
    /\ inflight[p].pc = "idle"
    /\ \/ inflight'[p].pc = "insert"
       \/ last' # last /\ last'.op = "createUser"

MsgCreateConflict == "User with the same name or email already exists"
MsgUpdateConflict == "Email already in use by another user"
MsgNotFound == "User not found"
MsgNoChanges == "No changes detected"

----------------------------------------------------------------------------
\* C1: in every reachable state of the table no two distinct rows have the
\* same name and no two distinct rows have the same email.
C1_NoDuplicateNameOrEmail ==
    \A r1 \in users, r2 \in users :
        r1 # r2 => (r1.name # r2.name /\ r1.email # r2.email)

----------------------------------------------------------------------------
\* C2 as stated: a POST with a non-empty name and a valid email, for which no
\* row has that name or that email, is answered 201 with a positive id that no
\* row of the table has, and a GET of that id issued next returns exactly the
\* posted name and email.
C2_CreateSucceeds ==
    [][ /\ \A body \in Bodies :
              ( /\ body.json /\ body.name # EmptyStr /\ IsValidEmail(body.email)
                /\ ~\E r \in users : r.name = body.name \/ r.email = body.email
                /\ CreateUserCheck(1, body) )
              => ( /\ inflight'[1].pc = "insert"
                   /\ inflight'[1].name = body.name
                   /\ inflight'[1].email = body.email )
        /\ CreateUserInsert(1)
              => ( /\ Answered(1, StatusCreated, "")
                   /\ \E created \in last'.body :
                        /\ last'.body = {created}
                        /\ created.id > 0
                        /\ created.id \notin Ids(users)
                        /\ created.name = inflight[1].name
                        /\ created.email = inflight[1].email
                        /\ {u \in users' : u.id = created.id} = {created} )
      ]_vars

\* C2 as amended: the same, for a name and an email of at most 255 characters
\* each.
C2_CreateSucceedsWithinColumnWidth ==
    [][ /\ \A body \in Bodies :
              ( /\ body.json /\ body.name # EmptyStr /\ IsValidEmail(body.email)
                /\ ~\E r \in users : r.name = body.name \/ r.email = body.email
                /\ CreateUserCheck(1, body) )
              => ( /\ inflight'[1].pc = "insert"
                   /\ inflight'[1].name = body.name
                   /\ inflight'[1].email = body.email )
        /\ ( /\ CreateUserInsert(1)
             /\ Len(inflight[1].name) <= VarcharLen
             /\ Len(inflight[1].email) <= VarcharLen )
              => ( /\ Answered(1, StatusCreated, "")
                   /\ \E created \in last'.body :
                        /\ last'.body = {created}
                        /\ created.id > 0
                        /\ created.id \notin Ids(users)
                        /\ created.name = inflight[1].name
                        /\ created.email = inflight[1].email
                        /\ {u \in users' : u.id = created.id} = {created} )
      ]_vars

\* C2 witness: a POST has just been answered 201 and its row is in the table.
C2_Witness ==
    /\ last.op = "createUser"
    /\ last.out = "response"
    /\ last.status = StatusCreated
    /\ \E created \in last.body :
         /\ created \in users
         /\ created.name = last.name
         /\ created.email = last.email

----------------------------------------------------------------------------
\* C3 as stated: a POST whose name equals the name of an existing row, or whose
\* email equals the email of an existing row, is answered 409 and inserts no row.
C3_CreateConflict ==
    [][ \A p \in Procs : StartsCreate(p) => \A body \in RaceBodies :
          ( /\ body.json
            /\ \E r \in users : r.name = body.name \/ r.email = body.email
            /\ CreateUserCheck(p, body) )
          => ( /\ Answered(p, StatusConflict, MsgCreateConflict)
               /\ users' = users )
      ]_vars

\* C3 as amended: a POST whose name is non-empty and whose email is valid, and
\* whose name or email equals that of an existing row, is answered 409 and
\* inserts no row.
C3_ValidCreateConflict ==
    [][ \A p \in Procs : StartsCreate(p) => \A body \in RaceBodies :
          ( /\ body.json /\ body.name # EmptyStr /\ IsValidEmail(body.email)
            /\ \E r \in users : r.name = body.name \/ r.email = body.email
            /\ CreateUserCheck(p, body) )
          => ( /\ Answered(p, StatusConflict, MsgCreateConflict)
               /\ users' = users )
      ]_vars

\* C3 witness: a POST was answered 409 while a row holds its name under a
\* different email.
C3_Witness ==
    /\ last.op = "createUser"
    /\ last.out = "response"
    /\ last.status = StatusConflict
    /\ \E r \in users : r.name = last.name /\ r.email # last.email

----------------------------------------------------------------------------
\* C4: the insert of a POST that has passed the uniqueness check adds its row
\* and is answered 201 whatever the table holds by then, so two POSTs with the
\* same email that both pass the check before either inserts leave two rows
\* with that email.
C4_InsertAfterCheckNotRechecked ==
    [][ \A p \in Procs :
          CreateUserInsert(p)
          => ( /\ Answered(p, StatusCreated, "")
               /\ Cardinality({r \in users' : r.email = inflight[p].email})
                    = Cardinality({r \in users : r.email = inflight[p].email}) + 1 )
      ]_vars

\* C4 witness: two rows hold the same email and the second was just inserted by
\* a POST answered 201.
C4_Witness ==
    /\ last.op = "createUser"
    /\ last.out = "response"
    /\ last.status = StatusCreated
    /\ \E created \in last.body, r \in users :
         /\ created \in users
         /\ r.id # created.id
         /\ r.email = created.email

----------------------------------------------------------------------------
----------------------------------------------------------------------------
\* C6: a PUT whose name and email are both identical to the values stored for
\* its id is answered 400 "No changes detected" and leaves the table unchanged:
\* it passes the email lookup, and the comparison with the stored row rejects it.
C6_UpdateNoChanges ==
    [][ \A p \in Procs :
          /\ StartsUpdate(p) => \A id \in PathIds, body \in RaceBodies :
               ( /\ body.json
                 /\ \E r \in users : /\ r.id = ParseId(id)
                                     /\ r.name = body.name
                                     /\ r.email = body.email
                 /\ UpdateUserCheck(p, id, body) )
               => ( /\ inflight'[p].pc = "fetch"
                    /\ users' = users )
          /\ ( /\ UpdateUserFetch(p)
               /\ \E r \in users : /\ r.id = ParseId(inflight[p].id)
                                   /\ r.name = inflight[p].name
                                   /\ r.email = inflight[p].email )
               => ( /\ Answered(p, StatusBadRequest, MsgNoChanges)
                    /\ users' = users )
      ]_vars

----------------------------------------------------------------------------
\* C7 as stated: DELETE on any id, whether or not a row has it, is answered 200
\* "User deleted"; afterwards no row has that id and every other row is
\* unchanged.
C7_DeleteAnyId ==
    [][ \A id \in PathIds :
          DeleteUser(id)
          => ( /\ last'.op = "deleteUser"
               /\ last'.out = "response"
               /\ last'.status = StatusOK
               /\ last'.msg = "User deleted"
               /\ \A r \in users' : r.id # ParseId(id)
               /\ users' \subseteq users
               /\ \A r \in users : r.id # ParseId(id) => r \in users' )
      ]_vars

\* C7 as amended: the same, for any path id that is a decimal integer in the
\* range of the id column.
C7_DeleteIntegerId ==
    [][ \A id \in PathIds :
          (DeleteUser(id) /\ ParseId(id) # NotInt)
          => ( /\ last'.op = "deleteUser"
               /\ last'.out = "response"
               /\ last'.status = StatusOK
               /\ last'.msg = "User deleted"
               /\ \A r \in users' : r.id # ParseId(id)
               /\ users' \subseteq users
               /\ \A r \in users : r.id # ParseId(id) => r \in users' )
      ]_vars

\* C7 witness: a DELETE was answered 200, its id has no row and another row
\* is still stored.
C7_Witness ==
    /\ last.op = "deleteUser"
    /\ last.out = "response"
    /\ last.status = StatusOK
    /\ users # {}
    /\ users_id_seq > ParseId(last.id)
    /\ \A r \in users : r.id # ParseId(last.id)

----------------------------------------------------------------------------
\* C8: a GET of an id that has no row stops the process without a response;
\* once the process has stopped nothing changes any more: no request is served
\* and a request in flight stays where it was.
C8_GetMissingIsFatal ==
    [][ /\ \A id \in PathIds :
             (GetUser(id) /\ ~\E r \in users : r.id = ParseId(id))
             => ( /\ ~alive'
                  /\ last'.out = "fatal"
                  /\ users' = users
                  /\ inflight' = inflight )
        /\ ~alive => ( /\ ~alive'
                       /\ users' = users
                       /\ inflight' = inflight
                       /\ last' = last )
      ]_vars

\* C8 witness: the process was stopped by a GET of an id without a row, while
\* a POST or a PUT was between two of its statements.
C8_Witness ==
    /\ ~alive
    /\ last.op = "getUser"
    /\ last.out = "fatal"
    /\ ParseId(last.id) # NotInt
    /\ users_id_seq > ParseId(last.id)
    /\ \A r \in users : r.id # ParseId(last.id)
    /\ \E p \in Procs : inflight[p].pc # "idle"

----------------------------------------------------------------------------
\* C9: the update statement of a PUT changes only the name and the email of
\* the row with the path id: the ids of the table stay the same, no row is
\* added or removed and every other row is unchanged; and over any step the
\* ids stored are kept, except that a DELETE removes its id and the insert
\* of a POST adds one id larger than all of them.
C9_UpdateFrame ==
    [][ /\ \A p \in Procs :
             UpdateUserExec(p)
             => ( /\ Answered(p, StatusOK, "")
                  /\ Ids(users') = Ids(users)
                  /\ Cardinality(users') = Cardinality(users)
                  /\ \A r \in users : r.id # ParseId(inflight[p].id) => r \in users'
                  /\ \A r \in users' : r.id = ParseId(inflight[p].id) =>
                         ( /\ r.name = inflight[p].name
                           /\ r.email = inflight[p].email ) )
        /\ \/ Ids(users') = Ids(users) /\ Cardinality(users') = Cardinality(users)
           \/ \E id \in PathIds :
                /\ DeleteUser(id)
                /\ Ids(users') = Ids(users) \ {ParseId(id)}
           \/ \E p \in Procs :
                /\ CreateUserInsert(p)
                /\ Ids(users') = Ids(users) \cup {users_id_seq}
                /\ \A n \in Ids(users) : n < users_id_seq
      ]_vars

\* C9 witness: a PUT was answered 200, its row holds the submitted values and
\* another row is stored beside it.
C9_Witness ==
    /\ last.op = "updateUser"
    /\ last.out = "response"
    /\ last.status = StatusOK
    /\ Cardinality(users) >= 2
    /\ \E r \in users : /\ r.id = ParseId(last.id)
                        /\ r.name = last.name
                        /\ r.email = last.email

----------------------------------------------------------------------------
====
